---- MODULE Spec2Model ----
(***************************************************************************)
(* Test-plan sessions kept in the DynamoDB table `sessions_table` and the  *)
(* Lambda handlers that read and write them: plan_configurator,            *)
(* plan_generator, manual_case_creator, case_editor, coverage_calculator.  *)
(*                                                                         *)
(* A Python dict is a TLA+ record whose DOMAIN is the dict's key set, so   *)
(* `'k' in d` is "k" \in DOMAIN d and d.get(k, v) is Get(d, k, v).  A str  *)
(* that the code strips is a sequence of one-character strings.  The table *)
(* is a function from the ids of the stored items to the items.           *)
(*                                                                         *)
(* Each handler invocation takes two steps: one for the part up to and     *)
(* including get_item plus the local computation that follows it, which    *)
(* puts the invocation in the bag `inflight`, and one for the update_item  *)
(* call and the response, which takes it out.  An invocation that answers  *)
(* before it would write takes one step.  Numbers read back from the table *)
(* keep their value (the table is a document store that returns what was   *)
(* put).  datetime.utcnow() is a strictly increasing clock, read once per  *)
(* invocation; uuid4() is a fresh identifier.                              *)
(*                                                                         *)
(* Spec runs the writing steps of up to MaxInFlight overlapping            *)
(* invocations.  SpecRequests runs every outcome of every handler, the     *)
(* rejections and the storage failures included, one invocation at a time. *)
(* SpecSessions adds requirements_processor and a session id that          *)
(* plan_configurator never gives out.  SpecExtract and SpecRecommend apply *)
(* extract_json_from_response and generate_coverage_recommendations to     *)
(* their inputs.                                                           *)
(***************************************************************************)
EXTENDS Integers, Sequences, FiniteSets, Bags, TLC

VARIABLES store, inflight, resp, clock, nextId, content, extracted, analysis,
          recommended

vars ==
  <<store, inflight, resp, clock, nextId, content, extracted, analysis, recommended>>

(* ------------------------------ bounds -------------------------------- *)
MaxClock == 5
MaxCaseIds == 2
MaxIterations == 2
MaxInFlight == 2
MaxTextLen == 4

SessionIds == {"s1"}

(* --------------------------- dict helpers ----------------------------- *)
Get(d, k, default) == IF k \in DOMAIN d THEN d[k] ELSE default

Put(d, k, v) == [x \in (DOMAIN d) \cup {k} |-> IF x = k THEN v ELSE d[x]]

EmptyDict == [x \in {} |-> 0]

Range(s) == {s[i] : i \in DOMAIN s}

RECURSIVE SumSeq(_)
SumSeq(s) == IF s = <<>> THEN 0 ELSE Head(s) + SumSeq(Tail(s))

RECURSIVE Flatten(_)
Flatten(ss) == IF ss = <<>> THEN <<>> ELSE Head(ss) \o Flatten(Tail(ss))

(* ------------------------------ str.strip ----------------------------- *)
RECURSIVE LStrip(_)
LStrip(s) == IF s # <<>> /\ Head(s) = " " THEN LStrip(Tail(s)) ELSE s

RECURSIVE RStrip(_)
RStrip(s) ==
  IF s # <<>> /\ s[Len(s)] = " " THEN RStrip(SubSeq(s, 1, Len(s) - 1)) ELSE s

Strip(s) == RStrip(LStrip(s))

(* ------------------------- request payloads --------------------------- *)
(* Bodies of configure-plan requests: one accepted configuration and one   *)
(* body per validation rule of plan_configurator.                          *)
ConfigOk ==
  [plan_title |-> "plan", plan_type |-> "PERFORMANCE", coverage_percentage |-> 80,
   min_test_cases |-> 5, max_test_cases |-> 10, project_context |-> "ctx"]

ConfigBodies ==
  { ConfigOk,
    [ConfigOk EXCEPT !.plan_type = "UNIT"],
    [ConfigOk EXCEPT !.coverage_percentage = 9],
    [ConfigOk EXCEPT !.coverage_percentage = 101],
    [ConfigOk EXCEPT !.min_test_cases = 0],
    [ConfigOk EXCEPT !.max_test_cases = 101],
    [ConfigOk EXCEPT !.min_test_cases = 11],
    [plan_title |-> "plan", plan_type |-> "PERFORMANCE", coverage_percentage |-> 80,
     min_test_cases |-> 5, max_test_cases |-> 10] }

(* Case payloads (test_case of add-manual-case, updated_case of edit-case). *)
CaseBasic ==
  [title |-> <<"a">>, description |-> <<"d">>, preconditions |-> <<"p">>,
   steps |-> << <<"s">> >>, expected_result |-> <<"e">>]

CaseHigh ==
  [title |-> <<" ", "b", " ">>, description |-> <<"d">>, preconditions |-> <<"p">>,
   steps |-> << <<" ", "s">>, <<" ">> >>, expected_result |-> <<"e">>,
   priority |-> "HIGH", category |-> "SECURITY", estimated_time |-> 45,
   requirements_covered |-> <<"R1", "R2">>, tags |-> <<"t">>]

CaseLow ==
  [title |-> <<" ", "c">>, description |-> <<"d">>, preconditions |-> <<"p">>,
   steps |-> << <<"s">> >>, expected_result |-> <<"e">>,
   priority |-> "LOW", requirements_covered |-> <<"R2">>]

CaseUrgent == [CaseBasic EXCEPT !.title = <<"u">>] @@ [priority |-> "URGENT"]

CaseBlankSteps == [CaseBasic EXCEPT !.steps = << <<" ">> >>]

CaseNoSteps == [CaseBasic EXCEPT !.steps = <<>>]

CaseBlankTitle == [CaseBasic EXCEPT !.title = <<" ">>]

CaseNoTitle ==
  [description |-> <<"d">>, preconditions |-> <<"p">>,
   steps |-> << <<"s">> >>, expected_result |-> <<"e">>]

CaseBadCategory == CaseBasic @@ [category |-> "OTHER"]

CaseZeroTime == CaseBasic @@ [estimated_time |-> 0]

CasePayloads ==
  { CaseBasic, CaseHigh, CaseUrgent, CaseBlankSteps, CaseNoSteps,
    CaseBlankTitle, CaseNoTitle, CaseBadCategory, CaseZeroTime }

(* iteration_number values of add-manual-case bodies that give one. *)
IterationNumbers == 0 .. (MaxIterations + 1)

(* ----------------------------- responses ------------------------------ *)
(* The response most recently returned. *)
Response(op, status, error) == [op |-> op, status |-> status, error |-> error]

NoResponse == Response("none", 0, "")

(* An invocation starts (after get_item) and ends (with its response). *)
CanStart == BagCardinality(inflight) < MaxInFlight

Start(r) == inflight' = inflight (+) SetToBag({r})

InFlight(r) == BagIn(r, inflight)

End(r) == inflight' = inflight (-) SetToBag({r})

(* ------------------------------ the table ----------------------------- *)
(* sessions_table.update_item(Key, 'SET a = :a, ...'): sets the attributes  *)
(* of the item, creating the item when the key is not in the table.         *)
RECURSIVE SetAttrs(_, _)
SetAttrs(item, attrs) ==
  IF DOMAIN attrs = {} THEN item
  ELSE LET k == CHOOSE x \in DOMAIN attrs : TRUE
       IN SetAttrs(Put(item, k, attrs[k]),
                   [x \in (DOMAIN attrs) \ {k} |-> attrs[x]])

UpdateItem(table, sid, attrs) ==
  Put(table, sid,
      SetAttrs(IF sid \in DOMAIN table THEN table[sid] ELSE [id |-> sid], attrs))

StoredIterations(sid) ==
  IF sid \in DOMAIN store THEN Get(store[sid], "iterations", <<>>) ELSE <<>>

(* --------------------------- plan_configurator ------------------------ *)
ConfigRequiredFields ==
  {"plan_title", "plan_type", "coverage_percentage", "min_test_cases",
   "max_test_cases", "project_context"}

(* The accented names of the source are written without accents. *)
ValidPlanTypes == {"UNITARIAS", "INTEGRACION", "PERFORMANCE", "REGRESION"}

(* Variant: min_test_cases is not compared with max_test_cases. *)
ConfigErrorNoOrder(body) ==
  IF ConfigRequiredFields \ DOMAIN body # {} THEN "missing_fields"
  ELSE IF body.plan_type \notin ValidPlanTypes THEN "plan_type"
  ELSE IF body.coverage_percentage < 10 \/ body.coverage_percentage > 100
    THEN "coverage_percentage"
  ELSE IF body.min_test_cases < 1 \/ body.min_test_cases > 100 THEN "min_test_cases"
  ELSE IF body.max_test_cases < 1 \/ body.max_test_cases > 100 THEN "max_test_cases"
  ELSE ""

(* The first validation rule a configure-plan body violates, "" if none. *)
ConfigError(body) ==
  IF ConfigRequiredFields \ DOMAIN body # {} THEN "missing_fields"
  ELSE IF body.plan_type \notin ValidPlanTypes THEN "plan_type"
  ELSE IF body.coverage_percentage < 10 \/ body.coverage_percentage > 100
    THEN "coverage_percentage"
  ELSE IF body.min_test_cases < 1 \/ body.min_test_cases > 100 THEN "min_test_cases"
  ELSE IF body.max_test_cases < 1 \/ body.max_test_cases > 100 THEN "max_test_cases"
  ELSE IF body.min_test_cases > body.max_test_cases THEN "min_gt_max"
  ELSE ""

NewSession(sid, body, now) ==
  [id |-> sid,
   tester_id |-> Get(body, "tester_id", "anonymous"),
   project_context |-> body.project_context,
   plan_configuration |->
     [plan_title |-> body.plan_title, plan_type |-> body.plan_type,
      coverage_percentage |-> body.coverage_percentage,
      min_test_cases |-> body.min_test_cases,
      max_test_cases |-> body.max_test_cases,
      project_context |-> body.project_context],
   iterations |-> <<>>,
   status |-> "active",
   created_at |-> now,
   updated_at |-> now]

(* configure-plan with a body that fails validation: 400, nothing stored. *)
ConfigureRejected(body) ==
  /\ ConfigError(body) # ""
  /\ resp' = Response("configure", 400, ConfigError(body))
  /\ UNCHANGED <<store, inflight, clock, nextId>>

(* configure-plan with a valid body: put_item of a session under a fresh id. *)
Configure(body) ==
  /\ ConfigError(body) = ""
  /\ clock < MaxClock
  /\ SessionIds \ DOMAIN store # {}
  /\ LET sid == CHOOSE x \in SessionIds \ DOMAIN store : TRUE
     IN store' = Put(store, sid, NewSession(sid, body, clock))
  /\ clock' = clock + 1
  /\ resp' = Response("configure", 200, "")
  /\ UNCHANGED <<inflight, nextId>>

(* put_item raises: the handler's outer except answers 500. *)
ConfigurePutFails(body) ==
  /\ ConfigError(body) = ""
  /\ SessionIds \ DOMAIN store # {}
  /\ resp' = Response("configure", 500, "internal")
  /\ UNCHANGED <<store, inflight, clock, nextId>>

(* -------------------------- manual_case_creator ----------------------- *)
CaseRequiredFields ==
  {"title", "description", "preconditions", "steps", "expected_result"}

ValidPriorities == {"HIGH", "MEDIUM", "LOW"}

ValidCategories ==
  {"FUNCTIONAL", "NON_FUNCTIONAL", "INTEGRATION", "PERFORMANCE", "SECURITY",
   "USABILITY", "REGRESSION"}

(* [step.strip() for step in steps if step.strip()] *)
StripSteps(steps) ==
  SelectSeq([i \in DOMAIN steps |-> Strip(steps[i])], LAMBDA x : x # <<>>)

NewTestCase(tc, case_id, now, body) ==
  [id |-> case_id,
   title |-> Strip(tc.title),
   description |-> Strip(tc.description),
   preconditions |-> Strip(tc.preconditions),
   steps |-> StripSteps(tc.steps),
   expected_result |-> Strip(tc.expected_result),
   priority |-> Get(tc, "priority", "MEDIUM"),
   category |-> Get(tc, "category", "FUNCTIONAL"),
   estimated_time |-> Get(tc, "estimated_time", 30),
   requirements_covered |-> Get(tc, "requirements_covered", <<>>),
   tags |-> Get(tc, "tags", <<>>),
   automation_candidate |-> Get(tc, "automation_candidate", FALSE),
   created_at |-> now,
   updated_at |-> now,
   created_by |-> Get(body, "tester_id", "anonymous"),
   source |-> "manual"]

(* The checks made before get_item: "" when the body passes them. *)
AddEarlyError(body) ==
  IF CaseRequiredFields \ DOMAIN body.test_case # {} THEN "missing_case_fields"
  ELSE IF Len(body.test_case.steps) = 0 THEN "no_steps"
  ELSE ""

(* The checks made on the new case after get_item, in the code's order. *)
AddCaseError(new_test_case) ==
  IF new_test_case.priority \notin ValidPriorities THEN "priority"
  ELSE IF new_test_case.category \notin ValidCategories THEN "category"
  ELSE IF new_test_case.estimated_time <= 0 THEN "estimated_time"
  ELSE ""

(* Variant: the upper limit of the iteration number is not checked. *)
IterationNumberErrorNoUpperLimit(body, iterations) ==
  IF "iteration_number" \in DOMAIN body /\ body.iteration_number < 1
  THEN "iteration_number"
  ELSE ""

IterationNumberError(body, iterations) ==
  IF "iteration_number" \in DOMAIN body
       /\ (body.iteration_number < 1 \/ body.iteration_number > Len(iterations))
  THEN "iteration_number"
  ELSE ""

(* Variant: the case always goes to the last iteration. *)
TargetIndexLast(body, iterations) ==
  IF iterations = <<>> THEN 1 ELSE Len(iterations)

(* Index of the iteration the new case goes to, counted after the append of *)
(* a first iteration when the session has none.                             *)
TargetIndex(body, iterations) ==
  IF "iteration_number" \in DOMAIN body THEN body.iteration_number
  ELSE IF iterations = <<>> THEN 1
  ELSE Len(iterations)

(* Variant: the new case takes the place of the cases of its iteration. *)
AttachManualCaseAlone(body, iterations, new_test_case, now) ==
  LET base ==
        IF "iteration_number" \notin DOMAIN body /\ iterations = <<>>
        THEN << [iteration_number |-> 1, test_cases |-> <<>>, created_at |-> now] >>
        ELSE iterations
      k == TargetIndex(body, iterations)
  IN IF k \in DOMAIN base
     THEN [base EXCEPT ![k] = Put(base[k], "test_cases", <<new_test_case>>)]
     ELSE base

(* The iterations list after the new case is attached.  The check of the   *)
(* iteration number comes first in the handler, so the index is one of the  *)
(* list; for any other index the list is left as read.                      *)
AttachManualCase(body, iterations, new_test_case, now) ==
  LET base ==
        IF "iteration_number" \notin DOMAIN body /\ iterations = <<>>
        THEN << [iteration_number |-> 1, test_cases |-> <<>>, created_at |-> now] >>
        ELSE iterations
      k == TargetIndex(body, iterations)
  IN IF k \in DOMAIN base
     THEN [base EXCEPT ![k] =
             Put(base[k], "test_cases",
                 Append(Get(base[k], "test_cases", <<>>), new_test_case))]
     ELSE base

IterationCases(iteration) == Get(iteration, "test_cases", <<>>)

(* calculate_session_metrics raises KeyError at priorities[priority] += 1   *)
(* when a walked case has a priority that is not a key of the histogram.    *)
SessionMetricsRaises(iterations) ==
  \E i \in DOMAIN iterations :
    \E j \in DOMAIN IterationCases(iterations[i]) :
      Get(IterationCases(iterations[i])[j], "priority", "MEDIUM") \notin ValidPriorities

(* add-manual-case rejected before the table is read. *)
AddRejectedEarly(sid, body) ==
  /\ AddEarlyError(body) # ""
  /\ resp' = Response("add", 400, AddEarlyError(body))
  /\ UNCHANGED <<store, inflight, clock, nextId>>

(* get_item finds no item. *)
AddNotFound(sid, body) ==
  /\ AddEarlyError(body) = ""
  /\ sid \notin DOMAIN store
  /\ resp' = Response("add", 404, "session")
  /\ UNCHANGED <<store, inflight, clock, nextId>>

(* The first rule the new case or the iteration number violates against the *)
(* session read, "" if none.                                                *)
AddError(body, iterations, new_test_case) ==
  IF AddCaseError(new_test_case) # "" THEN AddCaseError(new_test_case)
  ELSE IterationNumberError(body, iterations)

(* get_item, then the new case or the iteration number is rejected.  The    *)
(* uuid and the time taken for the rejected case are discarded.             *)
AddRejected(sid, body) ==
  /\ AddEarlyError(body) = ""
  /\ sid \in DOMAIN store
  /\ LET err == AddError(body, Get(store[sid], "iterations", <<>>),
                         NewTestCase(body.test_case, nextId, clock, body))
     IN /\ err # ""
        /\ resp' = Response("add", 400, err)
  /\ UNCHANGED <<store, inflight, clock, nextId>>

(* get_item, the new case and the iterations list to be written. *)
AddLoad(sid, body) ==
  /\ CanStart
  /\ clock < MaxClock
  /\ nextId <= MaxCaseIds
  /\ AddEarlyError(body) = ""
  /\ sid \in DOMAIN store
  /\ LET new_test_case == NewTestCase(body.test_case, nextId, clock, body)
         iterations == Get(store[sid], "iterations", <<>>)
     IN /\ AddError(body, iterations, new_test_case) = ""
        /\ Start([op |-> "add", sid |-> sid, body |-> body, read |-> iterations,
                  case_id |-> nextId, now |-> clock,
                  iterations |->
                    AttachManualCase(body, iterations, new_test_case, clock)])
  /\ clock' = clock + 1
  /\ nextId' = nextId + 1
  /\ UNCHANGED <<store, resp>>

(* Variant: the write is conditional on the list being as it was read, and  *)
(* the request is answered 200 either way.                                  *)
AddPersistIfUnchanged(r) ==
  /\ InFlight(r)
  /\ r.op = "add"
  /\ store' = UpdateItem(store, r.sid,
                [iterations |-> IF StoredIterations(r.sid) = r.read
                                THEN r.iterations ELSE StoredIterations(r.sid),
                 updated_at |-> r.now])
  /\ resp' = Response("add", 200, "")
  /\ End(r)
  /\ UNCHANGED <<clock, nextId>>

(* update_item succeeds; the metrics computed after it decide the status. *)
AddPersist(r) ==
  /\ InFlight(r)
  /\ r.op = "add"
  /\ store' = UpdateItem(store, r.sid,
                [iterations |-> r.iterations, updated_at |-> r.now])
  /\ resp' = IF SessionMetricsRaises(r.iterations)
             THEN Response("add", 500, "internal")
             ELSE Response("add", 200, "")
  /\ End(r)
  /\ UNCHANGED <<clock, nextId>>

(* Variant: the failed write leaves updated_at behind. *)
AddPersistFailsPartly(r) ==
  /\ InFlight(r)
  /\ r.op = "add"
  /\ store' = UpdateItem(store, r.sid, [updated_at |-> r.now])
  /\ resp' = Response("add", 500, "update")
  /\ End(r)
  /\ UNCHANGED <<clock, nextId>>

(* update_item raises: 500, nothing written. *)
AddPersistFails(r) ==
  /\ InFlight(r)
  /\ r.op = "add"
  /\ resp' = Response("add", 500, "update")
  /\ End(r)
  /\ UNCHANGED <<store, clock, nextId>>

(* ------------------------------ case_editor --------------------------- *)
(* Variant: the edit stamps created_at anew instead of keeping the case's. *)
UpdatedCaseDataNewCreatedAt(case, case_id, updated_case, now, body) ==
  [id |-> case_id,
   title |-> updated_case.title,
   description |-> updated_case.description,
   preconditions |-> updated_case.preconditions,
   steps |-> updated_case.steps,
   expected_result |-> updated_case.expected_result,
   priority |-> Get(updated_case, "priority", Get(case, "priority", "MEDIUM")),
   category |-> Get(updated_case, "category", Get(case, "category", "FUNCTIONAL")),
   estimated_time |->
     Get(updated_case, "estimated_time", Get(case, "estimated_time", 30)),
   requirements_covered |->
     Get(updated_case, "requirements_covered",
         Get(case, "requirements_covered", <<>>)),
   created_at |-> now,
   updated_at |-> now,
   updated_by |-> Get(body, "tester_id", "anonymous")]

(* Variant: the edit keeps the case's updated_at instead of refreshing it. *)
UpdatedCaseDataOldUpdatedAt(case, case_id, updated_case, now, body) ==
  [UpdatedCaseDataNewCreatedAt(case, case_id, updated_case, now, body)
     EXCEPT !.created_at = Get(case, "created_at", now),
            !.updated_at = Get(case, "updated_at", now)]

(* The dict built for a case whose id matches.  title, steps and the other  *)
(* required fields are copied as given; tags, source and created_by are not *)
(* keys of it.                                                              *)
UpdatedCaseData(case, case_id, updated_case, now, body) ==
  [id |-> case_id,
   title |-> updated_case.title,
   description |-> updated_case.description,
   preconditions |-> updated_case.preconditions,
   steps |-> updated_case.steps,
   expected_result |-> updated_case.expected_result,
   priority |-> Get(updated_case, "priority", Get(case, "priority", "MEDIUM")),
   category |-> Get(updated_case, "category", Get(case, "category", "FUNCTIONAL")),
   estimated_time |->
     Get(updated_case, "estimated_time", Get(case, "estimated_time", 30)),
   requirements_covered |->
     Get(updated_case, "requirements_covered",
         Get(case, "requirements_covered", <<>>)),
   created_at |-> Get(case, "created_at", now),
   updated_at |-> now,
   updated_by |-> Get(body, "tester_id", "anonymous")]

CaseHasId(case, case_id) == "id" \in DOMAIN case /\ case.id = case_id

(* Variant: the replaced case is moved to the end of its iteration. *)
ReplaceCaseAtEnd(iterations, case_id, updated_case, now, body) ==
  [i \in DOMAIN iterations |->
     IF "test_cases" \in DOMAIN iterations[i]
     THEN Put(iterations[i], "test_cases",
            SelectSeq(iterations[i].test_cases,
                      LAMBDA case : ~CaseHasId(case, case_id))
            \o [j \in 1 .. Len(SelectSeq(iterations[i].test_cases,
                                         LAMBDA case : CaseHasId(case, case_id))) |->
                  UpdatedCaseData(
                    SelectSeq(iterations[i].test_cases,
                              LAMBDA case : CaseHasId(case, case_id))[j],
                    case_id, updated_case, now, body)])
     ELSE iterations[i]]

(* The loop over the iterations: every case with the id is replaced where   *)
(* it stands; an iteration without a test_cases key is passed through.      *)
ReplaceCase(iterations, case_id, updated_case, now, body) ==
  [i \in DOMAIN iterations |->
     IF "test_cases" \in DOMAIN iterations[i]
     THEN Put(iterations[i], "test_cases",
            [j \in DOMAIN iterations[i].test_cases |->
               IF CaseHasId(iterations[i].test_cases[j], case_id)
               THEN UpdatedCaseData(iterations[i].test_cases[j], case_id,
                                    updated_case, now, body)
               ELSE iterations[i].test_cases[j]])
     ELSE iterations[i]]

CaseFound(iterations, case_id) ==
  \E i \in DOMAIN iterations :
    \E j \in DOMAIN IterationCases(iterations[i]) :
      CaseHasId(IterationCases(iterations[i])[j], case_id)

(* case_editor.calculate_coverage_metrics: every requirement a case names   *)
(* is both a requirement and a covered one.                                 *)
EditorCoverageMetrics(iterations) ==
  LET cases == Flatten([i \in DOMAIN iterations |->
                          Get(iterations[i], "test_cases", <<>>)])
      total_requirements ==
        UNION { {Get(cases[j], "requirements_covered", <<>>)[k] :
                   k \in DOMAIN Get(cases[j], "requirements_covered", <<>>)} :
                j \in DOMAIN cases }
  IN [total_test_cases |-> Len(cases),
      total_requirements |-> Cardinality(total_requirements),
      covered_requirements |-> Cardinality(total_requirements),
      coverage_percentage |->
        IF total_requirements # {}
        THEN (Cardinality(total_requirements) * 100)
               \div Cardinality(total_requirements)
        ELSE 0]

EditEarlyError(body) ==
  IF CaseRequiredFields \ DOMAIN body.updated_case # {} THEN "missing_case_fields"
  ELSE ""

EditRejectedEarly(sid, body) ==
  /\ EditEarlyError(body) # ""
  /\ resp' = Response("edit", 400, EditEarlyError(body))
  /\ UNCHANGED <<store, inflight, clock, nextId>>

EditNotFound(sid, body) ==
  /\ EditEarlyError(body) = ""
  /\ sid \notin DOMAIN store
  /\ resp' = Response("edit", 404, "session")
  /\ UNCHANGED <<store, inflight, clock, nextId>>

(* get_item and the scan find no case with the id. *)
EditCaseNotFound(sid, body) ==
  /\ EditEarlyError(body) = ""
  /\ sid \in DOMAIN store
  /\ ~CaseFound(Get(store[sid], "iterations", <<>>), body.case_id)
  /\ resp' = Response("edit", 404, "case")
  /\ UNCHANGED <<store, inflight, clock, nextId>>

(* get_item and the scan that builds updated_iterations. *)
EditLoad(sid, body) ==
  /\ CanStart
  /\ clock < MaxClock
  /\ EditEarlyError(body) = ""
  /\ sid \in DOMAIN store
  /\ LET iterations == Get(store[sid], "iterations", <<>>)
     IN /\ CaseFound(iterations, body.case_id)
        /\ Start([op |-> "edit", sid |-> sid, body |-> body, read |-> iterations,
                  case_id |-> body.case_id, now |-> clock,
                  iterations |->
                    ReplaceCase(iterations, body.case_id, body.updated_case,
                                clock, body)])
  /\ clock' = clock + 1
  /\ UNCHANGED <<store, resp, nextId>>

EditPersist(r) ==
  /\ InFlight(r)
  /\ r.op = "edit"
  /\ store' = UpdateItem(store, r.sid,
                [iterations |-> r.iterations, updated_at |-> r.now])
  /\ resp' = Response("edit", 200, "")
  /\ End(r)
  /\ UNCHANGED <<clock, nextId>>

EditPersistFails(r) ==
  /\ InFlight(r)
  /\ r.op = "edit"
  /\ resp' = Response("edit", 500, "update")
  /\ End(r)
  /\ UNCHANGED <<store, clock, nextId>>

(* ----------------------------- plan_generator ------------------------- *)
RequirementIds == <<"R1", "R2", "R3", "R4", "R5", "R6", "R7", "R8">>

(* What extract_json_from_response recovers from the model's text: a dict   *)
(* with n cases, case i naming requirement Ri, under both the key the code  *)
(* reads and the key the coverage calculator reads.                         *)
RawCase(i) ==
  [testcase_number |-> i, test_case_name |-> "name", priority |-> "HIGH",
   requirements |-> RequirementIds[i],
   requirements_covered |-> <<RequirementIds[i]>>]

ModelOutput(n) == [test_cases |-> [i \in 1 .. n |-> RawCase(i)]]

(* The model answers with no case or with the eight the prompt asks for. *)
GenSizes == {0, 8}

(* A case with the keys of the JSON template the prompt shows the model:    *)
(* the template has no requirements key.                                    *)
PromptCase ==
  [testcase_number |-> "TC_001", test_case_name |-> "name", priority |-> "HIGH"]

ModelOutputs == { ModelOutput(n) : n \in GenSizes }

AllModelOutputs == ModelOutputs \cup { [test_cases |-> <<PromptCase>>] }

(* The processed_case dict: the listed keys only, each with its default.    *)
(* The keys no handler reads and the model's answer never sets (test_data,  *)
(* the address_*, cache_*, manual_modal_* and order_status placeholders,    *)
(* test_steps, expected_results, modifications_log) are left out.           *)
ProcessedCase(case, i, now) ==
  [testcase_number |-> Get(case, "testcase_number", i),
   test_case_name |-> Get(case, "test_case_name", "Test Case"),
   requirements |-> Get(case, "requirements", ""),
   priority |-> Get(case, "priority", "MEDIA"),
   status |-> "PROPOSED",
   created_by |-> "AI_AGENT",
   last_modified |-> now]

generate_test_cases_with_claude(output, now) ==
  LET cases == Get(output, "test_cases", <<>>)
  IN [i \in DOMAIN cases |-> ProcessedCase(cases[i], i, now)]

Min(a, b) == IF a < b THEN a ELSE b

(* plan_generator.calculate_coverage_metrics: ten cases count as 100%. *)
GeneratorCoverageMetrics(test_cases, plan_config) ==
  [target_coverage |-> plan_config.coverage_percentage,
   actual_coverage |-> Min(100, (Len(test_cases) * 100) \div 10),
   total_requirements |-> 10,
   covered_requirements |-> Len(test_cases),
   uncovered_requirements |-> <<>>]

(* iteration_data: the number comes from the iterations read by get_item. *)
IterationData(session_data, sid, body, test_cases, now) ==
  [iteration_number |-> Len(Get(session_data, "iterations", <<>>)) + 1,
   user_input |->
     IF Get(body, "user_instructions", "") # ""
     THEN body.user_instructions ELSE "Generate initial plan",
   system_response |-> Len(test_cases),
   generated_plan |->
     [id |-> sid,
      configuration |-> session_data.plan_configuration,
      test_cases |-> test_cases,
      coverage_metrics |->
        GeneratorCoverageMetrics(test_cases, session_data.plan_configuration),
      created_at |-> now,
      updated_at |-> now,
      status |-> "draft"],
   timestamp |-> now]

(* Variant: SET iterations = [it], the stored list is replaced. *)
ListReplaceIteration(table, sid, iteration_data, now) ==
  UpdateItem(table, sid, [iterations |-> <<iteration_data>>, updated_at |-> now])

(* SET iterations = list_append(if_not_exists(iterations, []), [it]),       *)
(* updated_at = t: the append is made to the list in the table.             *)
ListAppendIteration(table, sid, iteration_data, now) ==
  UpdateItem(table, sid,
    [iterations |->
       Append(IF sid \in DOMAIN table THEN Get(table[sid], "iterations", <<>>)
              ELSE <<>>, iteration_data),
     updated_at |-> now])

(* Variant: the request for a missing session is answered 404 after the     *)
(* table has been written.                                                  *)
GenerateNotFoundWrites(sid, body) ==
  /\ sid \notin DOMAIN store
  /\ store' = UpdateItem(store, sid, [iterations |-> <<>>, updated_at |-> clock])
  /\ resp' = Response("generate", 404, "session")
  /\ UNCHANGED <<inflight, clock, nextId>>

GenerateNotFound(sid, body) ==
  /\ sid \notin DOMAIN store
  /\ resp' = Response("generate", 404, "session")
  /\ UNCHANGED <<store, inflight, clock, nextId>>

(* get_item finds an item without plan_configuration: the KeyError is       *)
(* caught with the errors of get_item and answered 500.                     *)
GenerateNoConfiguration(sid, body) ==
  /\ sid \in DOMAIN store
  /\ "plan_configuration" \notin DOMAIN store[sid]
  /\ resp' = Response("generate", 500, "retrieve")
  /\ UNCHANGED <<store, inflight, clock, nextId>>

(* get_item and plan_config = session_data['plan_configuration']. *)
GenerateLoad(sid, body) ==
  /\ CanStart
  /\ sid \in DOMAIN store
  /\ "plan_configuration" \in DOMAIN store[sid]
  /\ Start([op |-> "generate", sid |-> sid, body |-> body,
            session_data |-> store[sid],
            read |-> Get(store[sid], "iterations", <<>>)])
  /\ UNCHANGED <<store, resp, clock, nextId>>

(* Variant: the failed request leaves its time in the session. *)
GenerateModelFailsTouches(r) ==
  /\ InFlight(r)
  /\ r.op = "generate"
  /\ store' = UpdateItem(store, r.sid, [updated_at |-> clock])
  /\ resp' = Response("generate", 500, "model")
  /\ End(r)
  /\ UNCHANGED <<clock, nextId>>

(* invoke_model raises: re-raised, answered 500 by the outer except. *)
GenerateModelFails(r) ==
  /\ InFlight(r)
  /\ r.op = "generate"
  /\ resp' = Response("generate", 500, "model")
  /\ End(r)
  /\ UNCHANGED <<store, clock, nextId>>

(* Variant: an answer without cases is treated as a failure of the model. *)
GeneratePersistUnlessEmpty(r, output) ==
  /\ InFlight(r)
  /\ r.op = "generate"
  /\ clock < MaxClock
  /\ Len(StoredIterations(r.sid)) < MaxIterations
  /\ LET test_cases == generate_test_cases_with_claude(output, clock)
     IN IF test_cases = <<>>
        THEN /\ resp' = Response("generate", 500, "model")
             /\ UNCHANGED <<store, clock>>
        ELSE /\ store' = ListAppendIteration(store, r.sid,
                           IterationData(r.session_data, r.sid, r.body, test_cases,
                                         clock),
                           clock)
             /\ clock' = clock + 1
             /\ resp' = Response("generate", 200, "")
  /\ End(r)
  /\ UNCHANGED nextId

(* invoke_model answers, the cases of the answer are processed and the      *)
(* iteration is appended to the stored list.                                *)
GeneratePersist(r, output) ==
  /\ InFlight(r)
  /\ r.op = "generate"
  /\ clock < MaxClock
  /\ Len(StoredIterations(r.sid)) < MaxIterations
  /\ LET test_cases == generate_test_cases_with_claude(output, clock)
     IN store' = ListAppendIteration(store, r.sid,
                   IterationData(r.session_data, r.sid, r.body, test_cases, clock),
                   clock)
  /\ clock' = clock + 1
  /\ resp' = Response("generate", 200, "")
  /\ End(r)
  /\ UNCHANGED nextId

(* update_item raises: answered 500 by the outer except, nothing written. *)
GeneratePersistFails(r) ==
  /\ InFlight(r)
  /\ r.op = "generate"
  /\ resp' = Response("generate", 500, "update")
  /\ End(r)
  /\ UNCHANGED <<store, clock, nextId>>

(* --------------------------- coverage_calculator ---------------------- *)
(* The cases the walk visits, in order: those under the test_cases key of   *)
(* each iteration.                                                          *)
WalkedCases(iterations) ==
  Flatten([i \in DOMAIN iterations |-> IterationCases(iterations[i])])

CasePriority(case) == Get(case, "priority", "MEDIUM")

CaseCategory(case) == Get(case, "category", "FUNCTIONAL")

CaseRequirements(case) == Get(case, "requirements_covered", <<>>)

PriorityDistribution(cases) ==
  [pr \in ValidPriorities |->
     Cardinality({j \in DOMAIN cases : CasePriority(cases[j]) = pr})]

CategoryDistribution(cases) ==
  [cat \in {CaseCategory(cases[j]) : j \in DOMAIN cases} |->
     Cardinality({j \in DOMAIN cases : CaseCategory(cases[j]) = cat})]

RequirementSet(cases) == UNION {Range(CaseRequirements(cases[j])) : j \in DOMAIN cases}

(* One entry per (case, requirement) occurrence, in walk order. *)
RequirementRefs(cases) ==
  Flatten([j \in DOMAIN cases |->
    [k \in DOMAIN CaseRequirements(cases[j]) |->
       [requirement_id |-> CaseRequirements(cases[j])[k],
        case_id |-> Get(cases[j], "id", 0),
        case_title |-> Get(cases[j], "title", <<>>),
        priority |-> CasePriority(cases[j]),
        category |-> CaseCategory(cases[j])]]])

(* requirements_coverage_detail: for each requirement the cases naming it. *)
RequirementsDetail(cases) ==
  [r \in RequirementSet(cases) |->
     LET refs == SelectSeq(RequirementRefs(cases), LAMBDA x : x.requirement_id = r)
     IN [requirement_id |-> r, test_cases |-> refs, coverage_count |-> Len(refs)]]

(* list(a_set): the order in which a set of str is iterated depends on the  *)
(* interpreter's hash seed, which differs from process to process.  Two of  *)
(* the orders are kept: that of RequirementIds and its reverse.             *)
HashSeeds == {"a", "b"}

ListOfSet(set, seed) ==
  LET listed == SelectSeq(RequirementIds, LAMBDA x : x \in set)
  IN IF seed = "a" THEN listed
     ELSE [i \in 1 .. Len(listed) |-> listed[Len(listed) + 1 - i]]

IterationsAnalysis(iterations, seed) ==
  [i \in DOMAIN iterations |->
     LET cases == IterationCases(iterations[i])
     IN [iteration_number |-> i,
         test_cases_count |-> Len(cases),
         estimated_time |->
           SumSeq([j \in DOMAIN cases |-> Get(cases[j], "estimated_time", 30)]),
         requirements_covered |-> ListOfSet(RequirementSet(cases), seed),
         priority_distribution |-> PriorityDistribution(cases),
         category_distribution |-> CategoryDistribution(cases)]]

(* Variant: the share of 60% itself counts as many high-priority cases. *)
RecommendationsFromSixty(actual_coverage, target_coverage, cases_by_priority, cases_by_category, uncovered_requirements) ==
  LET total_cases ==
        cases_by_priority["HIGH"] + cases_by_priority["MEDIUM"]
          + cases_by_priority["LOW"]
      high == cases_by_priority["HIGH"]
  IN (IF actual_coverage < target_coverage THEN <<"gap">> ELSE <<>>)
     \o (IF total_cases > 0
         THEN IF high * 100 < 20 * total_cases THEN <<"few_high">>
              ELSE IF high * 100 >= 60 * total_cases THEN <<"many_high">>
              ELSE <<>>
         ELSE <<>>)
     \o (IF Cardinality(DOMAIN cases_by_category) = 1
         THEN <<"one_category">> ELSE <<>>)
     \o (IF total_cases < 10 THEN <<"few_cases">>
         ELSE IF total_cases > 100 THEN <<"many_cases">>
         ELSE <<>>)

(* The rules in the code's order, one tag per appended sentence.  The       *)
(* shares are compared by cross-multiplication, which agrees with the       *)
(* float comparison for every count up to 300.                              *)
generate_coverage_recommendations(actual_coverage, target_coverage, cases_by_priority, cases_by_category, uncovered_requirements) ==
  LET total_cases ==
        cases_by_priority["HIGH"] + cases_by_priority["MEDIUM"]
          + cases_by_priority["LOW"]
      high == cases_by_priority["HIGH"]
  IN (IF actual_coverage < target_coverage
      THEN <<"gap">> \o (IF uncovered_requirements # <<>>
                         THEN <<"uncovered">> ELSE <<>>)
      ELSE <<>>)
     \o (IF total_cases > 0
         THEN IF high * 100 < 20 * total_cases THEN <<"few_high">>
              ELSE IF high * 100 > 60 * total_cases THEN <<"many_high">>
              ELSE <<>>
         ELSE <<>>)
     \o (IF Cardinality(DOMAIN cases_by_category) = 1
         THEN <<"one_category">> ELSE <<>>)
     \o (IF total_cases < 10 THEN <<"few_cases">>
         ELSE IF total_cases > 100 THEN <<"many_cases">>
         ELSE <<>>)

(* The walk raises KeyError at cases_by_priority[priority] += 1 when a case *)
(* has a priority outside the histogram's keys.                             *)
CoverageRaises(session_data) ==
  \E j \in DOMAIN WalkedCases(Get(session_data, "iterations", <<>>)) :
    CasePriority(WalkedCases(Get(session_data, "iterations", <<>>))[j])
      \notin ValidPriorities

(* The report.  covered and all requirements are filled by the same adds,   *)
(* so the quotient is 1 and the percentage 100 whenever any is named.       *)
calculate_detailed_coverage(session_data, now, seed) ==
  LET iterations == Get(session_data, "iterations", <<>>)
      cases == WalkedCases(iterations)
      cases_by_priority == PriorityDistribution(cases)
      cases_by_category == CategoryDistribution(cases)
      all_requirements == RequirementSet(cases)
      covered_requirements == RequirementSet(cases)
      target_coverage ==
        Get(Get(session_data, "plan_configuration", EmptyDict),
            "coverage_percentage", 80)
      actual_coverage ==
        IF all_requirements # {}
        THEN (Cardinality(covered_requirements) * 100)
               \div Cardinality(all_requirements)
        ELSE 0
      uncovered_requirements == <<>>
  IN [summary |->
        [total_test_cases |-> Len(cases),
         total_requirements |-> Cardinality(all_requirements),
         covered_requirements |-> Cardinality(covered_requirements),
         uncovered_requirements |-> Len(uncovered_requirements),
         target_coverage_percentage |-> target_coverage,
         actual_coverage_percentage |-> actual_coverage,
         coverage_gap |-> target_coverage - actual_coverage,
         total_estimated_time_minutes |->
           SumSeq([j \in DOMAIN cases |-> Get(cases[j], "estimated_time", 30)])],
      priority_analysis |-> [distribution |-> cases_by_priority],
      category_analysis |-> [distribution |-> cases_by_category],
      requirements_detail |-> RequirementsDetail(cases),
      uncovered_requirements |-> uncovered_requirements,
      iterations_analysis |-> IterationsAnalysis(iterations, seed),
      recommendations |->
        generate_coverage_recommendations(actual_coverage, target_coverage,
          cases_by_priority, cases_by_category, uncovered_requirements),
      calculated_at |-> now]

CoverageNotFound(sid) ==
  /\ sid \notin DOMAIN store
  /\ resp' = Response("coverage", 404, "session")
  /\ UNCHANGED <<store, inflight, clock, nextId>>

(* get_item, then the walk raises: answered 500 by the outer except. *)
CoverageFails(sid) ==
  /\ sid \in DOMAIN store
  /\ CoverageRaises(store[sid])
  /\ resp' = Response("coverage", 500, "internal")
  /\ UNCHANGED <<store, inflight, clock, nextId>>

(* get_item and the report computed from the session read. *)
CoverageLoad(sid) ==
  /\ CanStart
  /\ clock < MaxClock
  /\ sid \in DOMAIN store
  /\ ~CoverageRaises(store[sid])
  /\ \E seed \in HashSeeds :
       Start([op |-> "coverage", sid |-> sid, now |-> clock,
              read |-> Get(store[sid], "iterations", <<>>),
              coverage_metrics |->
                calculate_detailed_coverage(store[sid], clock, seed)])
  /\ clock' = clock + 1
  /\ UNCHANGED <<store, resp, nextId>>

(* SET coverage_metrics = :metrics, updated_at = :updated_at *)
CoveragePersist(r) ==
  /\ InFlight(r)
  /\ r.op = "coverage"
  /\ store' = UpdateItem(store, r.sid,
                [coverage_metrics |-> r.coverage_metrics, updated_at |-> r.now])
  /\ resp' = Response("coverage", 200, "")
  /\ End(r)
  /\ UNCHANGED <<clock, nextId>>

CoveragePersistFails(r) ==
  /\ InFlight(r)
  /\ r.op = "coverage"
  /\ resp' = Response("coverage", 500, "update")
  /\ End(r)
  /\ UNCHANGED <<store, clock, nextId>>

(* ------------------------- requirements_processor -------------------- *)
(* A file name is its stem followed by its extension, lower-cased. *)
AllowedExtensions == {".pdf", ".docx", ".doc", ".txt", ".md"}

UploadBodies ==
  { [file_name |-> <<"req", ".md">>], [file_name |-> <<"req", ".exe">>] }

(* any(file_name.lower().endswith(ext) for ext in allowed_extensions) *)
UploadError(body) ==
  IF body.file_name[Len(body.file_name)] \notin AllowedExtensions
  THEN "file_type" ELSE ""

UploadRejected(sid, body) ==
  /\ UploadError(body) # ""
  /\ resp' = Response("upload", 400, UploadError(body))
  /\ UNCHANGED <<store, inflight, clock, nextId>>

(* put_object, then SET requirements_document = :doc, updated_at = :time    *)
(* on the key, without a get_item before it: the item is created when the   *)
(* key is not in the table.  The uuid inside s3_key, which no handler       *)
(* reads, is left out of the key.                                           *)
Upload(sid, body) ==
  /\ UploadError(body) = ""
  /\ clock < MaxClock
  /\ store' = UpdateItem(store, sid,
                [requirements_document |->
                   [file_name |-> body.file_name,
                    s3_key |-> <<sid, body.file_name>>,
                    upload_time |-> clock],
                 updated_at |-> clock])
  /\ clock' = clock + 1
  /\ resp' = Response("upload", 200, "")
  /\ UNCHANGED <<inflight, nextId>>

(* put_object or update_item raises: 500, nothing written to the table. *)
UploadFails(sid, body) ==
  /\ UploadError(body) = ""
  /\ resp' = Response("upload", 500, "internal")
  /\ UNCHANGED <<store, inflight, clock, nextId>>

(* ---------------- plan_generator.extract_json_from_response ------------ *)
(* A text is a sequence of tokens, each standing for the characters shown:  *)
(*   "{" {     "}" }     "t" "test_cases": []     "a" []     "x" word       *)
(*   "f" a fence of three backquotes     "j" json                           *)
Tokens == {"{", "}", "t", "a", "x", "f", "j"}

Texts == UNION { [1 .. n -> Tokens] : n \in 0 .. MaxTextLen }

(* The outcome of a parse: ok, then the kind (dict or list) and the value. *)
Parsed(kind, value) == [ok |-> TRUE, kind |-> kind, value |-> value]

JSONDecodeError == [ok |-> FALSE, kind |-> "error", value |-> <<>>]

NotExtracted == [ok |-> FALSE, kind |-> "none", value |-> <<>>]

(* json.loads: the texts over the tokens that are JSON documents are [],    *)
(* {} and {"test_cases": []}; it returns whatever value the document is.    *)
json_loads(text) ==
  IF text = <<"a">> THEN Parsed("list", <<>>)
  ELSE IF text = <<"{", "}">> THEN Parsed("dict", EmptyDict)
  ELSE IF text = <<"{", "t", "}">> THEN Parsed("dict", [test_cases |-> <<>>])
  ELSE JSONDecodeError

Positions(text, token) == { i \in DOMAIN text : text[i] = token }

Lowest(set) == CHOOSE i \in set : \A j \in set : i <= j

Highest(set) == CHOOSE i \in set : \A j \in set : i >= j

(* re.search for a fenced block: from the first fence, the json tag if it  *)
(* follows, then the shortest text up to the next fence.                    *)
FencedGroup(text) ==
  LET fences == Positions(text, "f")
      from == IF fences = {} THEN 0
              ELSE IF Lowest(fences) < Len(text) /\ text[Lowest(fences) + 1] = "j"
              THEN Lowest(fences) + 2
              ELSE Lowest(fences) + 1
      closing == { i \in fences : i >= from }
  IN IF fences = {} \/ closing = {}
     THEN [found |-> FALSE, group |-> <<>>]
     ELSE [found |-> TRUE, group |-> SubSeq(text, from, Lowest(closing) - 1)]

(* re.search for a brace span: from the first { to the last }. *)
BraceGroup(text) ==
  LET opening == Positions(text, "{")
      closing == Positions(text, "}")
  IN IF opening = {} \/ closing = {} \/ Highest(closing) < Lowest(opening)
     THEN [found |-> FALSE, group |-> <<>>]
     ELSE [found |-> TRUE,
           group |-> SubSeq(text, Lowest(opening), Highest(closing))]

extract_json_from_response(text) ==
  IF json_loads(text).ok THEN json_loads(text)
  ELSE IF FencedGroup(text).found /\ json_loads(FencedGroup(text).group).ok
  THEN json_loads(FencedGroup(text).group)
  ELSE IF BraceGroup(text).found /\ json_loads(BraceGroup(text).group).ok
  THEN json_loads(BraceGroup(text).group)
  ELSE Parsed("dict", [test_cases |-> <<>>])

(* The handlers leave the text, what was extracted from it and the         *)
(* analysis of the recommendations alone.                                   *)
NoExtract == UNCHANGED <<content, extracted, analysis, recommended>>

(* test_cases_data = extract_json_from_response(content) *)
Extract ==
  /\ extracted = NotExtracted
  /\ extracted' = extract_json_from_response(content)
  /\ UNCHANGED <<store, inflight, resp, clock, nextId, content, analysis, recommended>>

(* ------- coverage_calculator.generate_coverage_recommendations -------- *)
(* The counts of cases per priority the histograms are drawn from. *)
CaseCounts == {0, 1, 2, 3, 9, 10, 100, 101}

TotalCases(cases_by_priority) ==
  cases_by_priority["HIGH"] + cases_by_priority["MEDIUM"] + cases_by_priority["LOW"]

(* cases_by_category for a number of cases: no key for no case, else one    *)
(* category holding all of them or two categories.                          *)
CategoryHistograms(total_cases) ==
  IF total_cases = 0 THEN { EmptyDict }
  ELSE { [cat \in {"FUNCTIONAL"} |-> total_cases] }
         \cup (IF total_cases = 1 THEN {}
               ELSE { [cat \in {"FUNCTIONAL", "SECURITY"} |->
                         IF cat = "SECURITY" THEN 1 ELSE total_cases - 1] })

(* The arguments calculate_detailed_coverage passes. *)
Analysis(actual, target, by_priority, by_category, uncovered) ==
  [actual_coverage |-> actual, target_coverage |-> target,
   cases_by_priority |-> by_priority, cases_by_category |-> by_category,
   uncovered_requirements |-> uncovered]

NoAnalysis ==
  Analysis(0, 80, [pr \in ValidPriorities |-> 0], EmptyDict, <<>>)

NotRecommended == <<"none">>

(* recommendations = generate_coverage_recommendations(...) *)
Recommend ==
  /\ recommended = NotRecommended
  /\ recommended' =
       generate_coverage_recommendations(analysis.actual_coverage,
         analysis.target_coverage, analysis.cases_by_priority,
         analysis.cases_by_category, analysis.uncovered_requirements)
  /\ UNCHANGED <<store, inflight, resp, clock, nextId, content, extracted, analysis>>

(* ------------------------------ the system ---------------------------- *)
Init ==
  /\ store = EmptyDict
  /\ inflight = EmptyBag
  /\ resp = NoResponse
  /\ clock = 1
  /\ nextId = 1
  /\ content = <<>>
  /\ extracted = NotExtracted
  /\ analysis = NoAnalysis
  /\ recommended = NotRecommended

Requests == BagToSet(inflight)

(* Request bodies of the overlapping runs. *)
AddBodies ==
  { [test_case |-> CaseBasic],
    [test_case |-> CaseHigh, iteration_number |-> 1] }

EditBodies ==
  { [case_id |-> c, updated_case |-> CaseLow] : c \in 1 .. MaxCaseIds }

GenerateBodies == { EmptyDict }

Next ==
  \/ NoExtract /\ Configure(ConfigOk)
  \/ NoExtract /\ \E sid \in SessionIds, body \in AddBodies : AddLoad(sid, body)
  \/ NoExtract /\ \E r \in Requests : AddPersist(r)
  \/ NoExtract /\ \E sid \in SessionIds, body \in EditBodies : EditLoad(sid, body)
  \/ NoExtract /\ \E r \in Requests : EditPersist(r)
  \/ NoExtract /\ \E sid \in SessionIds, body \in GenerateBodies : GenerateLoad(sid, body)
  \/ NoExtract /\ \E r \in Requests, output \in ModelOutputs : GeneratePersist(r, output)
  \/ NoExtract /\ \E sid \in SessionIds : CoverageLoad(sid)
  \/ NoExtract /\ \E r \in Requests : CoveragePersist(r)

Spec == Init /\ [][Next]_vars

(* Request bodies of the one-at-a-time runs: every payload, every           *)
(* iteration number, every case id and one more.                            *)
AllAddBodies ==
  { [test_case |-> tc] : tc \in CasePayloads }
    \cup { [test_case |-> tc, iteration_number |-> n] :
             tc \in {CaseBasic, CaseHigh}, n \in IterationNumbers }

AllEditBodies ==
  { [case_id |-> c, updated_case |-> tc] :
      c \in 1 .. (MaxCaseIds + 1), tc \in CasePayloads }

(* The session ids a request may name: those configure-plan gives out and   *)
(* one it never gives out.                                                  *)
NamedIds == SessionIds \cup {"s0"}

(* No invocation is running and the last response has been received. *)
Quiet == inflight = EmptyBag /\ resp = NoResponse

(* The caller receives the response. *)
Return ==
  /\ resp # NoResponse
  /\ resp' = NoResponse
  /\ UNCHANGED <<store, inflight, clock, nextId>>

NextRequests ==
  \/ NoExtract /\ Return
  \/ NoExtract /\ Quiet /\ \E body \in ConfigBodies : ConfigureRejected(body)
  \/ NoExtract /\ Quiet /\ \E body \in ConfigBodies : Configure(body)
  \/ NoExtract /\ Quiet /\ \E body \in ConfigBodies : ConfigurePutFails(body)
  \/ NoExtract /\ Quiet /\ \E sid \in SessionIds, body \in AllAddBodies : AddRejectedEarly(sid, body)
  \/ NoExtract /\ Quiet /\ \E sid \in NamedIds, body \in AllAddBodies : AddNotFound(sid, body)
  \/ NoExtract /\ Quiet /\ \E sid \in SessionIds, body \in AllAddBodies : AddRejected(sid, body)
  \/ NoExtract /\ Quiet /\ \E sid \in SessionIds, body \in AllAddBodies : AddLoad(sid, body)
  \/ NoExtract /\ Quiet /\ \E sid \in SessionIds, body \in AllEditBodies : EditRejectedEarly(sid, body)
  \/ NoExtract /\ Quiet /\ \E sid \in NamedIds, body \in AllEditBodies : EditNotFound(sid, body)
  \/ NoExtract /\ Quiet /\ \E sid \in SessionIds, body \in AllEditBodies : EditCaseNotFound(sid, body)
  \/ NoExtract /\ Quiet /\ \E sid \in SessionIds, body \in AllEditBodies : EditLoad(sid, body)
  \/ NoExtract /\ Quiet /\ \E sid \in NamedIds, body \in GenerateBodies : GenerateNotFound(sid, body)
  \/ NoExtract /\ Quiet /\ \E sid \in SessionIds, body \in GenerateBodies : GenerateLoad(sid, body)
  \/ NoExtract /\ Quiet /\ \E sid \in NamedIds : CoverageNotFound(sid)
  \/ NoExtract /\ Quiet /\ \E sid \in SessionIds : CoverageFails(sid)
  \/ NoExtract /\ Quiet /\ \E sid \in SessionIds : CoverageLoad(sid)
  \/ NoExtract /\ \E r \in Requests : AddPersist(r)
  \/ NoExtract /\ \E r \in Requests : AddPersistFails(r)
  \/ NoExtract /\ \E r \in Requests : EditPersist(r)
  \/ NoExtract /\ \E r \in Requests : EditPersistFails(r)
  \/ NoExtract /\ \E r \in Requests : GenerateModelFails(r)
  \/ NoExtract /\ \E r \in Requests, output \in AllModelOutputs : GeneratePersist(r, output)
  \/ NoExtract /\ \E r \in Requests : GeneratePersistFails(r)
  \/ NoExtract /\ \E r \in Requests : CoveragePersist(r)
  \/ NoExtract /\ \E r \in Requests : CoveragePersistFails(r)

SpecRequests == Init /\ [][NextRequests]_vars

(* The requests of every handler, upload-requirements included, one at a    *)
(* time, on the ids a request may name.                                     *)
NextSessions ==
  \/ NoExtract /\ Return
  \/ NoExtract /\ Quiet /\ Configure(ConfigOk)
  \/ NoExtract /\ Quiet /\ \E sid \in NamedIds, body \in UploadBodies : UploadRejected(sid, body)
  \/ NoExtract /\ Quiet /\ \E sid \in NamedIds, body \in UploadBodies : Upload(sid, body)
  \/ NoExtract /\ Quiet /\ \E sid \in NamedIds, body \in UploadBodies : UploadFails(sid, body)
  \/ NoExtract /\ Quiet /\ \E sid \in NamedIds, body \in AddBodies : AddNotFound(sid, body)
  \/ NoExtract /\ Quiet /\ \E sid \in NamedIds, body \in AddBodies : AddRejected(sid, body)
  \/ NoExtract /\ Quiet /\ \E sid \in NamedIds, body \in AddBodies : AddLoad(sid, body)
  \/ NoExtract /\ Quiet /\ \E sid \in NamedIds, body \in EditBodies : EditNotFound(sid, body)
  \/ NoExtract /\ Quiet /\ \E sid \in NamedIds, body \in EditBodies : EditCaseNotFound(sid, body)
  \/ NoExtract /\ Quiet /\ \E sid \in NamedIds, body \in EditBodies : EditLoad(sid, body)
  \/ NoExtract /\ Quiet /\ \E sid \in NamedIds, body \in GenerateBodies : GenerateNotFound(sid, body)
  \/ NoExtract /\ Quiet /\ \E sid \in NamedIds, body \in GenerateBodies : GenerateNoConfiguration(sid, body)
  \/ NoExtract /\ Quiet /\ \E sid \in NamedIds, body \in GenerateBodies : GenerateLoad(sid, body)
  \/ NoExtract /\ Quiet /\ \E sid \in NamedIds : CoverageNotFound(sid)
  \/ NoExtract /\ Quiet /\ \E sid \in NamedIds : CoverageLoad(sid)
  \/ NoExtract /\ \E r \in Requests : AddPersist(r)
  \/ NoExtract /\ \E r \in Requests : EditPersist(r)
  \/ NoExtract /\ \E r \in Requests, output \in ModelOutputs : GeneratePersist(r, output)
  \/ NoExtract /\ \E r \in Requests : CoveragePersist(r)

SpecSessions == Init /\ [][NextSessions]_vars

(* The extraction applied to every text of up to MaxTextLen tokens. *)
InitExtract ==
  /\ store = EmptyDict
  /\ inflight = EmptyBag
  /\ resp = NoResponse
  /\ clock = 1
  /\ nextId = 1
  /\ content \in Texts
  /\ extracted = NotExtracted
  /\ analysis = NoAnalysis
  /\ recommended = NotRecommended

NextExtract == Extract

SpecExtract == InitExtract /\ [][NextExtract]_vars

(* The recommendations for the arguments calculate_detailed_coverage can    *)
(* pass: the actual coverage is 0 or 100, no requirement is uncovered, the  *)
(* two histograms count the same cases.                                     *)
InitRecommend ==
  /\ store = EmptyDict
  /\ inflight = EmptyBag
  /\ resp = NoResponse
  /\ clock = 1
  /\ nextId = 1
  /\ content = <<>>
  /\ extracted = NotExtracted
  /\ \E actual \in {0, 100}, target \in {10, 80, 100} :
       \E by_priority \in [ValidPriorities -> CaseCounts] :
         \E by_category \in CategoryHistograms(TotalCases(by_priority)) :
           analysis = Analysis(actual, target, by_priority, by_category, <<>>)
  /\ recommended = NotRecommended

NextRecommend == Recommend

SpecRecommend == InitRecommend /\ [][NextRecommend]_vars

(* ------------------------------ properties ---------------------------- *)
(* The cases a generate request stored with its iteration. *)
GeneratedCases(iteration) ==
  IF "generated_plan" \in DOMAIN iteration
  THEN iteration.generated_plan.test_cases ELSE <<>>

(* Every test case the iterations hold, generated or manual. *)
HeldCases(iterations) ==
  Flatten([i \in DOMAIN iterations |->
             IterationCases(iterations[i]) \o GeneratedCases(iterations[i])])

(* The step in which invocation r returns `status`. *)
Returns(r, status) ==
  /\ InFlight(r)
  /\ inflight' = inflight (-) SetToBag({r})
  /\ resp' = Response(r.op, status, "")

(* Where the case with the id is held: iteration index and created_at. *)
Places(iterations, case_id) ==
  UNION { { <<i, IterationCases(iterations[i])[j].created_at>> :
              j \in { k \in DOMAIN IterationCases(iterations[i]) :
                        CaseHasId(IterationCases(iterations[i])[k], case_id) } } :
          i \in DOMAIN iterations }

(* C1: a successful edit-case request stores the case under the id it had,  *)
(* with the created_at it had, in the iteration it was in: the same as in   *)
(* the session the request read and as in the table just before the write. *)
EditKeepsIdentity ==
  [][\A r \in Requests :
       (r.op = "edit" /\ Returns(r, 200)) =>
         LET before == Places(StoredIterations(r.sid), r.case_id)
             after == Places(StoredIterations(r.sid)', r.case_id)
         IN /\ after # {}
            /\ after = Places(r.read, r.case_id)
            /\ before # {} => after = before]_vars

(* C1 witness: an edit has returned 200 and the edited case is stored. *)
EditedCaseStored ==
  /\ resp = Response("edit", 200, "")
  /\ \E sid \in DOMAIN store :
       \E j \in DOMAIN WalkedCases(StoredIterations(sid)) :
         LET case == WalkedCases(StoredIterations(sid))[j]
         IN "updated_by" \in DOMAIN case /\ case.updated_at > case.created_at

(* C2: every stored test case has an id and no two stored test cases of a   *)
(* session have the same id.                                                *)
CaseIdsUnique ==
  \A sid \in DOMAIN store :
    LET cases == HeldCases(StoredIterations(sid))
    IN /\ \A j \in DOMAIN cases : "id" \in DOMAIN cases[j]
       /\ \A j, k \in DOMAIN cases : j # k => cases[j].id # cases[k].id

(* What tells one stored iteration from another: its number, the time it   *)
(* was made and whether generate made it.                                   *)
IterationStamp(iteration) ==
  IF "timestamp" \in DOMAIN iteration THEN iteration.timestamp
  ELSE iteration.created_at

SameIteration(a, b) ==
  /\ a.iteration_number = b.iteration_number
  /\ ("generated_plan" \in DOMAIN a) = ("generated_plan" \in DOMAIN b)
  /\ IterationStamp(a) = IterationStamp(b)

(* Every iteration of `old` is in `new` at the index it had. *)
KeepsIterations(old, new) ==
  /\ Len(new) >= Len(old)
  /\ \A k \in DOMAIN old : SameIteration(old[k], new[k])

(* The step in which invocation r leaves, whatever it returns. *)
Ends(r) == InFlight(r) /\ inflight' = inflight (-) SetToBag({r})

(* C3 as claimed: in every step, under any interleaving, every stored       *)
(* iteration stays in the list at its index.                                *)
IterationsAppendOnly ==
  [][\A sid \in DOMAIN store :
       KeepsIterations(StoredIterations(sid), StoredIterations(sid)')]_vars

(* C3 amended: every stored iteration stays in the list at its index in     *)
(* every step except the write of an add-manual-case or edit-case request   *)
(* that read the list before another request changed it.                    *)
IterationsAppendOnlyUnlessStale ==
  [][\A sid \in DOMAIN store :
       (\A r \in Requests :
          (r.sid = sid /\ r.op \in {"add", "edit"} /\ Ends(r))
            => r.read = StoredIterations(sid))
       => KeepsIterations(StoredIterations(sid), StoredIterations(sid)')]_vars

(* C3 witness: a generate request has appended a second iteration. *)
SecondIterationAppended ==
  /\ resp = Response("generate", 200, "")
  /\ \E sid \in DOMAIN store :
       /\ Len(StoredIterations(sid)) >= 2
       /\ "generated_plan" \in DOMAIN StoredIterations(sid)[2]

(* C4: the iteration at position k has iteration_number k. *)
IterationNumbersDense ==
  \A sid \in DOMAIN store :
    \A k \in DOMAIN StoredIterations(sid) :
      StoredIterations(sid)[k].iteration_number = k

(* C5: the report computed for a session counts every test case its         *)
(* iterations hold, in the total and in the priority histogram.             *)
CoverageCountsEveryCase ==
  \A r \in Requests :
    r.op = "coverage" =>
      LET held == Len(HeldCases(r.read))
          histogram == r.coverage_metrics.priority_analysis.distribution
      IN /\ r.coverage_metrics.summary.total_test_cases = held
         /\ histogram["HIGH"] + histogram["MEDIUM"] + histogram["LOW"] = held

(* The scenario of C6: target 80, min 5, max 10, one generated iteration of *)
(* eight cases naming R1..R8.                                               *)
EightCaseScenario(session_data) ==
  LET iterations == Get(session_data, "iterations", <<>>)
  IN /\ session_data.plan_configuration.coverage_percentage = 80
     /\ session_data.plan_configuration.min_test_cases = 5
     /\ session_data.plan_configuration.max_test_cases = 10
     /\ Len(iterations) = 1
     /\ Len(GeneratedCases(iterations[1])) = 8
     /\ { GeneratedCases(iterations[1])[j].requirements : j \in 1 .. 8 }
          = Range(RequirementIds)

(* C6: in that scenario the report says actual coverage 100, gap -20 and    *)
(* gives no gap recommendation.                                             *)
ScenarioCoverageReport ==
  \A r \in Requests :
    (/\ r.op = "coverage"
     /\ r.sid \in DOMAIN store
     /\ EightCaseScenario(store[r.sid])
     /\ r.read = StoredIterations(r.sid)) =>
      /\ r.coverage_metrics.summary.actual_coverage_percentage = 100
      /\ r.coverage_metrics.summary.coverage_gap = -20
      /\ "gap" \notin Range(r.coverage_metrics.recommendations)

(* Two reports that differ at most in calculated_at. *)
SameReport(a, b) == [a EXCEPT !.calculated_at = 0] = [b EXCEPT !.calculated_at = 0]

(* C7: when a generate, add-manual-case or edit-case request returns 200,   *)
(* the coverage_metrics stored in the session is the report of the          *)
(* iterations then stored.                                                  *)
CoverageMetricsRecomputed ==
  [][\A r \in Requests :
       (r.op \in {"generate", "add", "edit"} /\ Returns(r, 200)) =>
         /\ "coverage_metrics" \in DOMAIN store'[r.sid]
         /\ \E seed \in HashSeeds :
              SameReport(store'[r.sid].coverage_metrics,
                         calculate_detailed_coverage(store'[r.sid], 0, seed))]_vars

(* The updated_at values of the stored cases with the id. *)
UpdatedAts(iterations, case_id) ==
  { WalkedCases(iterations)[j].updated_at :
      j \in { k \in DOMAIN WalkedCases(iterations) :
                CaseHasId(WalkedCases(iterations)[k], case_id) } }

(* C8 as claimed: the write of every successful edit-case request, under    *)
(* any interleaving, makes the stored updated_at of the case later.         *)
EditAdvancesUpdatedAt ==
  [][\A r \in Requests :
       (r.op = "edit" /\ Returns(r, 200)) =>
         \A before \in UpdatedAts(StoredIterations(r.sid), r.case_id) :
           \A after \in UpdatedAts(StoredIterations(r.sid)', r.case_id) :
             after > before]_vars

(* C8 amended: it does so when no other request has written the iterations  *)
(* between the read and the write of the edit.                              *)
EditAdvancesUpdatedAtUnlessStale ==
  [][\A r \in Requests :
       (r.op = "edit" /\ Returns(r, 200) /\ r.read = StoredIterations(r.sid)) =>
         /\ UpdatedAts(StoredIterations(r.sid)', r.case_id) # {}
         /\ \A before \in UpdatedAts(StoredIterations(r.sid), r.case_id) :
              \A after \in UpdatedAts(StoredIterations(r.sid)', r.case_id) :
                after > before]_vars

(* C8 witness: the last write was an edit and it stamped the case with the  *)
(* latest time read.                                                        *)
EditStampedCase ==
  /\ resp = Response("edit", 200, "")
  /\ inflight = EmptyBag
  /\ \E sid \in DOMAIN store, c \in 1 .. MaxCaseIds :
       UpdatedAts(StoredIterations(sid), c) = {clock - 1}

(* The iteration numbers an add-manual-case request may give for the list. *)
OutOfRange(body, iterations) ==
  /\ "iteration_number" \in DOMAIN body
  /\ body.iteration_number \notin 1 .. Len(iterations)

(* C9: an add-manual-case request whose iteration_number is outside         *)
(* [1, number of iterations of the session it read] is answered 400, is     *)
(* never taken on, and the step that answers it writes nothing.  What the   *)
(* handler answers is decided by the table, the clock and the id counter,   *)
(* so it is looked at after every step that changes one of them.            *)
BadIterationNumberRejected ==
  [][/\ <<store, clock, nextId>>' # <<store, clock, nextId>> =>
          \A sid \in DOMAIN store', body \in AllAddBodies :
            OutOfRange(body, StoredIterations(sid)') =>
              \/ AddEarlyError(body) # ""
              \/ AddError(body, StoredIterations(sid)',
                          NewTestCase(body.test_case, nextId', clock', body)) # ""
     /\ \A r \in BagToSet(inflight') :
          r.op = "add" => ~OutOfRange(r.body, r.read)
     /\ (resp' = Response("add", 400, "iteration_number") /\ resp' # resp)
          => (store' = store /\ inflight' = inflight)]_vars

(* C9 witness: a request was answered 400 for its iteration number by a     *)
(* session that has iterations.                                             *)
BadIterationNumberAnswered ==
  /\ resp = Response("add", 400, "iteration_number")
  /\ \E sid \in DOMAIN store : Len(StoredIterations(sid)) >= 1

(* C10: the write of a successful add-manual-case request stores the        *)
(* iterations it read with the new case appended to the iteration named, to *)
(* the last one when none is named, or as the only case of a new iteration  *)
(* number 1 when it read none; nothing else in the list differs.            *)
ManualCaseAttached ==
  [][\A r \in Requests :
       (r.op = "add" /\ Returns(r, 200)) =>
         LET old == r.read
             new == StoredIterations(r.sid)'
             n == IF "iteration_number" \in DOMAIN r.body
                  THEN r.body.iteration_number
                  ELSE IF old = <<>> THEN 1 ELSE Len(old)
         IN /\ Len(new) = IF old = <<>> THEN 1 ELSE Len(old)
            /\ \A i \in DOMAIN old : i # n => new[i] = old[i]
            /\ n \in DOMAIN new
            /\ old = <<>> =>
                 /\ new[1].iteration_number = 1
                 /\ Len(new[1].test_cases) = 1
                 /\ new[1].test_cases[1].id = r.case_id
            /\ old # <<>> =>
                 LET was == IterationCases(old[n])
                     is == IterationCases(new[n])
                 IN /\ new[n].iteration_number = old[n].iteration_number
                    /\ Len(is) = Len(was) + 1
                    /\ SubSeq(is, 1, Len(was)) = was
                    /\ is[Len(is)].id = r.case_id]_vars

(* C10 witness: a case was added to iteration 1 of a session that has a     *)
(* second iteration made before the case.                                   *)
CaseAddedToFirstOfTwo ==
  /\ resp = Response("add", 200, "")
  /\ \E sid \in DOMAIN store :
       /\ Len(StoredIterations(sid)) = 2
       /\ \E j \in DOMAIN IterationCases(StoredIterations(sid)[1]) :
            IterationCases(StoredIterations(sid)[1])[j].created_at
              > IterationStamp(StoredIterations(sid)[2])

(* C11: in every coverage result, of calculate-coverage, of edit-case and   *)
(* of generate, the actual coverage is 0 when no case names a requirement   *)
(* and is within 0..100 in any case.                                        *)
ActualCoverageInRange ==
  /\ \A r \in Requests :
       r.op = "coverage" =>
         LET actual == r.coverage_metrics.summary.actual_coverage_percentage
         IN /\ actual \in 0 .. 100
            /\ RequirementSet(WalkedCases(r.read)) = {} => actual = 0
  /\ \A r \in Requests :
       r.op = "edit" =>
         LET actual == EditorCoverageMetrics(r.iterations).coverage_percentage
         IN /\ actual \in 0 .. 100
            /\ RequirementSet(WalkedCases(r.iterations)) = {} => actual = 0
  /\ \A sid \in DOMAIN store :
       \A k \in DOMAIN StoredIterations(sid) :
         "generated_plan" \in DOMAIN StoredIterations(sid)[k] =>
           LET plan == StoredIterations(sid)[k].generated_plan
               actual == plan.coverage_metrics.actual_coverage
           IN /\ actual \in 0 .. 100
              /\ (\A j \in DOMAIN plan.test_cases :
                    plan.test_cases[j].requirements = "") => actual = 0

(* C12: the report a calculate-coverage request computed is, but for        *)
(* calculated_at, the report of any other run on the iterations and the     *)
(* target coverage it read.                                                 *)
CoverageDeterministic ==
  \A r \in Requests :
    (r.op = "coverage" /\ r.sid \in DOMAIN store) =>
      \A seed \in HashSeeds :
        SameReport(r.coverage_metrics,
                   calculate_detailed_coverage(
                     Put(store[r.sid], "iterations", r.read), 0, seed))

(* The steps that are not empty once stripped. *)
NonEmptySteps(case) ==
  { k \in DOMAIN case.steps : Strip(case.steps[k]) # <<>> }

(* C13: every test case stored in a session by add-manual-case or edit-case *)
(* has at least one step that is not empty once stripped.                   *)
StoredStepsNonEmpty ==
  \A sid \in DOMAIN store :
    \A j \in DOMAIN WalkedCases(StoredIterations(sid)) :
      NonEmptySteps(WalkedCases(StoredIterations(sid))[j]) # {}

(* C14: every test case stored in a session by add-manual-case or edit-case *)
(* has a priority among HIGH, MEDIUM, LOW.                                  *)
StoredPrioritiesValid ==
  \A sid \in DOMAIN store :
    \A j \in DOMAIN WalkedCases(StoredIterations(sid)) :
      /\ "priority" \in DOMAIN WalkedCases(StoredIterations(sid))[j]
      /\ WalkedCases(StoredIterations(sid))[j].priority \in ValidPriorities

(* The four text fields of a case besides its steps. *)
TextFields == {"title", "description", "preconditions", "expected_result"}

(* C15: in every test case stored in a session by add-manual-case or        *)
(* edit-case, title, description, preconditions and expected_result are     *)
(* present and not empty once stripped.                                     *)
StoredTextsNonEmpty ==
  \A sid \in DOMAIN store :
    \A j \in DOMAIN WalkedCases(StoredIterations(sid)) :
      \A f \in TextFields :
        /\ f \in DOMAIN WalkedCases(StoredIterations(sid))[j]
        /\ Strip(WalkedCases(StoredIterations(sid))[j][f]) # <<>>

(* The bounds of a plan configuration. *)
ConfigValid(config) ==
  /\ config.plan_type \in ValidPlanTypes
  /\ config.coverage_percentage \in 10 .. 100
  /\ config.min_test_cases \in 1 .. 100
  /\ config.max_test_cases \in 1 .. 100
  /\ config.min_test_cases <= config.max_test_cases

ModelFailureWritesNothing ==
  [][(resp' = Response("generate", 500, "model") /\ resp' # resp) =>
       /\ store' = store
       /\ \E r \in Requests : r.op = "generate" /\ Ends(r)]_vars

(* C18 witness: a generate request on a stored session was answered 500 for *)
(* the model's failure.                                                     *)
ModelFailureAnswered ==
  /\ resp = Response("generate", 500, "model")
  /\ \E sid \in DOMAIN store : "plan_configuration" \in DOMAIN store[sid]

(* C19: the step in which a generate, add-manual-case or edit-case request  *)
(* is answered 500 because update_item failed ends that request and leaves  *)
(* the table as it was; and whenever the iterations of a session change,    *)
(* they change in one step to the whole list of an add or edit request or   *)
(* to the stored list with one iteration appended by a generate request.    *)
PersistFailureWritesNothing ==
  [][/\ \A op \in {"generate", "add", "edit"} :
          (resp' = Response(op, 500, "update") /\ resp' # resp) =>
            /\ store' = store
            /\ \E r \in Requests : r.op = op /\ Ends(r)
     /\ \A sid \in DOMAIN store :
          StoredIterations(sid)' # StoredIterations(sid) =>
            \E r \in Requests :
              /\ Ends(r)
              /\ r.sid = sid
              /\ \/ /\ r.op \in {"add", "edit"}
                    /\ StoredIterations(sid)' = r.iterations
                 \/ /\ r.op = "generate"
                    /\ Len(StoredIterations(sid)') = Len(StoredIterations(sid)) + 1
                    /\ SubSeq(StoredIterations(sid)', 1, Len(StoredIterations(sid)))
                         = StoredIterations(sid)]_vars

(* C19 witness: a request was answered 500 for the failure of its write to  *)
(* a session that holds iterations.                                         *)
PersistFailureAnswered ==
  /\ resp.status = 500
  /\ resp.error = "update"
  /\ resp.op \in {"generate", "add", "edit"}
  /\ \E sid \in DOMAIN store : StoredIterations(sid) # <<>>

(* C20: what the extraction returns for a text is a dict with a test_cases  *)
(* list.                                                                    *)
ExtractReturnsCaseList ==
  extracted # NotExtracted =>
    /\ extracted.ok
    /\ extracted.kind = "dict"
    /\ "test_cases" \in DOMAIN extracted.value

RuleOrder ==
  <<"gap", "few_high", "many_high", "one_category", "few_cases", "many_cases">>

(* Whether the analysis satisfies a rule, each rule on its own.  The share  *)
(* of HIGH cases is that of a plan that has cases.                          *)
RuleSatisfied(rule, a) ==
  LET total == TotalCases(a.cases_by_priority)
      high == a.cases_by_priority["HIGH"]
  IN CASE rule = "gap" -> a.actual_coverage < a.target_coverage
       [] rule = "few_high" -> total > 0 /\ 5 * high < total
       [] rule = "many_high" -> total > 0 /\ 5 * high > 3 * total
       [] rule = "one_category" -> Cardinality(DOMAIN a.cases_by_category) = 1
       [] rule = "few_cases" -> total < 10
       [] rule = "many_cases" -> total > 100

OptionalFields ==
  {"priority", "category", "estimated_time", "requirements_covered", "tags"}

(* C23: the write of a successful edit-case request stores, in the place of *)
(* each case it replaced, a case that has the value the replaced case had   *)
(* for every optional field the request did not give, and its source and    *)
(* created_by.                                                              *)
EditInheritsUnsetFields ==
  [][\A r \in Requests :
       (r.op = "edit" /\ Returns(r, 200)) =>
         \A i \in DOMAIN r.read :
           \A j \in DOMAIN IterationCases(r.read[i]) :
             LET old == IterationCases(r.read[i])[j]
                 new == IterationCases(StoredIterations(r.sid)'[i])[j]
             IN CaseHasId(old, r.case_id) =>
                  \A f \in (OptionalFields \ DOMAIN r.body.updated_case)
                             \cup {"source", "created_by"} :
                    f \in DOMAIN old => (f \in DOMAIN new /\ new[f] = old[f])]_vars

(* The positions <<iteration, case>> of the cases with the id. *)
MatchPlaces(iterations, case_id) ==
  UNION { { <<i, j>> : j \in { k \in DOMAIN IterationCases(iterations[i]) :
                                  CaseHasId(IterationCases(iterations[i])[k], case_id) } } :
          i \in DOMAIN iterations }

(* The first of them in the order of the scan. *)
FirstPlace(places) ==
  CHOOSE p \in places :
    \A q \in places : p[1] < q[1] \/ (p[1] = q[1] /\ p[2] <= q[2])

(* C24: the write of a successful edit-case request stores the iterations   *)
(* it read with the first case that has the id replaced where it stood:     *)
(* as many iterations, each with its other keys and as many cases, every    *)
(* other case as it was; a request for an id no case has is answered 404 by *)
(* a step that writes nothing, and is never taken on.                       *)
EditReplacesInPlace ==
  [][/\ \A r \in Requests :
          (r.op = "edit" /\ Returns(r, 200)) =>
            LET old == r.read
                new == StoredIterations(r.sid)'
                places == MatchPlaces(old, r.case_id)
            IN /\ places # {}
               /\ Len(new) = Len(old)
               /\ \A i \in DOMAIN old :
                    /\ DOMAIN new[i] = DOMAIN old[i]
                    /\ \A k \in DOMAIN old[i] \ {"test_cases"} : new[i][k] = old[i][k]
                    /\ Len(IterationCases(new[i])) = Len(IterationCases(old[i]))
                    /\ \A j \in DOMAIN IterationCases(old[i]) :
                         IF <<i, j>> = FirstPlace(places)
                         THEN /\ IterationCases(new[i])[j].id = r.case_id
                              /\ IterationCases(new[i])[j].updated_at = r.now
                              /\ IterationCases(new[i])[j].title
                                   = r.body.updated_case.title
                         ELSE IterationCases(new[i])[j] = IterationCases(old[i])[j]
     /\ \A r \in BagToSet(inflight') :
          r.op = "edit" => MatchPlaces(r.read, r.case_id) # {}
     /\ (resp' = Response("edit", 404, "case") /\ resp' # resp)
          => (store' = store /\ inflight' = inflight)]_vars

(* C24 witness: an edit was answered 200 and the first of the two cases of  *)
(* an iteration is the edited one, the second is as it was created.         *)
FirstOfTwoCasesEdited ==
  /\ resp = Response("edit", 200, "")
  /\ \E sid \in DOMAIN store :
       \E i \in DOMAIN StoredIterations(sid) :
         LET cases == IterationCases(StoredIterations(sid)[i])
         IN /\ Len(cases) = 2
            /\ "updated_by" \in DOMAIN cases[1]
            /\ "updated_by" \notin DOMAIN cases[2]

(* The first rule of the case validation a payload violates, named by the   *)
(* error that reports it, "" if none: the required text fields present and  *)
(* not blank, a step left after stripping, then priority, category and      *)
(* estimated_time when given.                                               *)
FirstViolatedRule(tc) ==
  IF \/ CaseRequiredFields \ DOMAIN tc # {}
     \/ \E f \in TextFields : Strip(tc[f]) = <<>>
  THEN "missing_case_fields"
  ELSE IF NonEmptySteps(tc) = {} THEN "no_steps"
  ELSE IF "priority" \in DOMAIN tc /\ tc.priority \notin ValidPriorities
  THEN "priority"
  ELSE IF "category" \in DOMAIN tc /\ tc.category \notin ValidCategories
  THEN "category"
  ELSE IF "estimated_time" \in DOMAIN tc /\ tc.estimated_time <= 0
  THEN "estimated_time"
  ELSE ""

(* The step in which add-manual-case handles the body up to its answer or   *)
(* its write, the session being stored.                                     *)
HandlesAdd(sid, body) ==
  /\ sid \in DOMAIN store
  /\ AddRejectedEarly(sid, body) \/ AddRejected(sid, body) \/ AddLoad(sid, body)

(* The same for edit-case, the session and the case being stored. *)
HandlesEdit(sid, body) ==
  /\ sid \in DOMAIN store
  /\ CaseFound(StoredIterations(sid), body.case_id)
  /\ EditRejectedEarly(sid, body) \/ EditLoad(sid, body)

(* C25: the step that handles an add-manual-case or edit-case request on a  *)
(* stored session (for edit-case, on a stored case) whose payload violates  *)
(* a validation rule answers 400 with the error of the first rule violated  *)
(* in the order required text fields, steps, priority, category,            *)
(* estimated_time.                                                          *)
ValidationFailsFast ==
  [][/\ \A sid \in SessionIds, body \in AllAddBodies :
          (FirstViolatedRule(body.test_case) # "" /\ HandlesAdd(sid, body)) =>
            resp' = Response("add", 400, FirstViolatedRule(body.test_case))
     /\ \A sid \in SessionIds, body \in AllEditBodies :
          (FirstViolatedRule(body.updated_case) # "" /\ HandlesEdit(sid, body)) =>
            resp' = Response("edit", 400, FirstViolatedRule(body.updated_case))]_vars

(* C26: the step in which an add-manual-case or edit-case request is        *)
(* answered with a 4xx or 5xx status leaves the table as it was.            *)
ErrorResponseWritesNothing ==
  [][(resp'.op \in {"add", "edit"} /\ resp'.status >= 400 /\ resp' # resp)
       => store' = store]_vars

(* C27: every stored session has a plan_configuration, an iterations list   *)
(* and a status, and a session is added to the table only by the step in    *)
(* which configure-plan answers 200.                                        *)
OnlyConfigureCreatesSessions ==
  [][/\ \A sid \in DOMAIN store' :
          {"plan_configuration", "iterations", "status"} \subseteq DOMAIN store'[sid]
     /\ DOMAIN store' # DOMAIN store => resp' = Response("configure", 200, "")]_vars

(* C28: no calculate-coverage request is answered 500 because the           *)
(* calculation failed on the stored session.                                *)
CoverageNeverFails ==
  [][~(resp' = Response("coverage", 500, "internal") /\ resp' # resp)]_vars

(* The ids of the cases stored in the iterations. *)
CaseIds(iterations) ==
  { WalkedCases(iterations)[j].id :
      j \in { k \in DOMAIN WalkedCases(iterations) :
                "id" \in DOMAIN WalkedCases(iterations)[k] } }

(* C29: with one request at a time, no step takes a case id out of a        *)
(* session; the write of an add-manual-case request adds the id of its      *)
(* case, which was not stored, and no other; the steps that end an          *)
(* edit-case or calculate-coverage request leave the ids as they were.      *)
CaseIdsOnlyGrow ==
  [][/\ \A sid \in DOMAIN store :
          CaseIds(StoredIterations(sid)) \subseteq CaseIds(StoredIterations(sid)')
     /\ \A r \in Requests :
          Ends(r) =>
            LET old == CaseIds(StoredIterations(r.sid))
                new == CaseIds(StoredIterations(r.sid)')
            IN /\ (r.op = "add" /\ store' # store) =>
                    (r.case_id \notin old /\ new = old \cup {r.case_id})
               /\ (r.op = "add" /\ resp' = Response("add", 200, "")) => store' # store
               /\ r.op \in {"edit", "coverage"} => new = old]_vars

(* C29 witness: the second of two add-manual-case requests was answered 200 *)
(* and the ids of both cases are stored, the first case edited since.       *)
TwoCaseIdsStored ==
  /\ resp = Response("add", 200, "")
  /\ \E sid \in DOMAIN store :
       /\ CaseIds(StoredIterations(sid)) = 1 .. 2
       /\ \E j \in DOMAIN WalkedCases(StoredIterations(sid)) :
            "updated_by" \in DOMAIN WalkedCases(StoredIterations(sid))[j]

(* What the extraction gives for a text that holds no JSON. *)
FallbackOutput == extract_json_from_response(<<"x">>).value

(* C30: the step in which a generate request gets the extraction's fallback *)
(* answers 200, appends to the stored iterations one iteration whose plan   *)
(* holds no test case and sets the session's updated_at to a later time.    *)
EmptyGenerationSucceeds ==
  [][\A r \in Requests :
       (r.op = "generate" /\ GeneratePersist(r, FallbackOutput)) =>
         LET old == StoredIterations(r.sid)
             new == StoredIterations(r.sid)'
         IN /\ resp' = Response("generate", 200, "")
            /\ Len(new) = Len(old) + 1
            /\ SubSeq(new, 1, Len(old)) = old
            /\ new[Len(new)].generated_plan.test_cases = <<>>
            /\ new[Len(new)].system_response = 0
            /\ store'[r.sid].updated_at > store[r.sid].updated_at]_vars

(* C30 witness: a generate request was answered 200 and the iteration it    *)
(* appended after an earlier one holds no test case.                        *)
EmptyIterationAppended ==
  /\ resp = Response("generate", 200, "")
  /\ \E sid \in DOMAIN store :
       /\ Len(StoredIterations(sid)) = 2
       /\ "generated_plan" \in DOMAIN StoredIterations(sid)[2]
       /\ StoredIterations(sid)[2].generated_plan.test_cases = <<>>
       /\ StoredIterations(sid)[2].timestamp = clock - 1

====
